---- MODULE Spec2Model ----
(***************************************************************************)
(* A model of the PyProBE battery-cycler normalisation pipeline:           *)
(*   - BaseCycler.__init__ deriving the canonical columns (Step, Cycle,    *)
(*     Event, Capacity, ...) from an imported table (specification Spec);  *)
(*   - BaseCycler.sort_files / dataframe_list / imported_dataframe         *)
(*     assembling a multi-file procedure (specification SpecAssemble);     *)
(*   - Biologic.read_file and BiologicMB.get_imported_dataframe, reading   *)
(*     a Biologic file and correcting the steps of a Modulo Bat procedure  *)
(*     (specification SpecBiologic);                                       *)
(*   - Procedure.process_readme and Procedure.experiment, numbering the    *)
(*     steps of the experiments of a README and selecting their rows       *)
(*     (specification SpecProcedure);                                      *)
(*   - Result.__call__ and Result.check_units, returning columns of the    *)
(*     stored table (specification SpecResult).                            *)
(* Polars columns are sequences of cells; a cell carries a validity flag   *)
(* (null) beside its value, as in the Arrow memory format.                 *)
(***************************************************************************)
EXTENDS Integers, Sequences, FiniteSets, TLC

VARIABLES
    imported_dataframe,  \* the table BaseCycler.__init__ selects from
    pyprobe_dataframe,   \* self.pyprobe_dataframe, <<>> before construction
    glob_files,          \* the file names matching input_data_path
    file_columns,        \* file name -> column names of the table read from it
    common_suffix,       \* self.common_suffix
    common_prefix,       \* self.common_prefix, set by sort_files
    file_list,           \* glob.glob(input_data_path): the files as the disk lists them
    last_call,           \* the last assembly operation called
    result,              \* what that call returned, or [raised |-> ...]
    warned,              \* base names warned about by dataframe_list
    file_rows,           \* file name -> rows of the table read from it
    unreadable,          \* the files whose read_file raises
    read_log,            \* the files the last call handed to read_file, in order
    mb_files,            \* the step column Ns of each table handed to BiologicMB
    mb_cells,            \* the Temperature column of each of these tables
    bio_file,            \* the lines of a Biologic file
    readme_dict,         \* README.yaml as loaded: the experiments, in file order
    titles,              \* self.titles of a Procedure
    steps_idx,           \* self.steps_idx of a Procedure
    procedure_data,      \* self._data of a Procedure: the rows of its table
    result_data          \* self._data of a Result: its columns

vars == <<imported_dataframe, pyprobe_dataframe, glob_files, file_columns,
          common_suffix, common_prefix, file_list, last_call, result, warned,
          file_rows, unreadable, read_log, mb_files, mb_cells, bio_file,
          readme_dict, titles, steps_idx, procedure_data, result_data>>

cyclerVars == <<imported_dataframe, pyprobe_dataframe>>
assembleVars == <<glob_files, file_columns, common_suffix, common_prefix,
                  file_list, last_call, result, warned,
                  file_rows, unreadable, read_log>>

(***************************************************************************)
biologicVars == <<mb_files, mb_cells, bio_file>>
procedureVars == <<readme_dict, titles, steps_idx, procedure_data>>
resultVars == <<result_data>>

\* no Procedure is involved
NoProcedure ==
    /\ readme_dict = <<>>
    /\ titles = <<>>
    /\ steps_idx = <<>>
    /\ procedure_data = <<>>

(***************************************************************************)
(* Bounds of the model.                                                    *)
(***************************************************************************)
MaxRows == 4      \* rows of a table whose Step column varies
MaxStep == 3      \* largest raw step index
MaxCapRows == 3   \* rows of a table whose capacity counters vary
MaxCap == 2       \* largest counter reading
MaxFiles == 3     \* files of a multi-file procedure
MaxFileIndex == 10 \* largest index in a split file's name
MaxFileRows == 2  \* rows of one file of a multi-file procedure
MaxMBFiles == 3   \* tables handed to BiologicMB
MaxMBRows == 4    \* rows of these tables together
MaxNs == 1        \* largest raw step Ns
MaxHeaderLines == 5 \* lines of a Biologic header, column names included
MaxDataRows == 2  \* rows below a Biologic header

\* 02:02:00 as seconds of the day, the first Date of the test table
StartDate == 7320

(***************************************************************************)
(* Polars expressions.                                                     *)
(***************************************************************************)
Null == [null |-> TRUE, v |-> 0]
Some(x) == [null |-> FALSE, v |-> x]

\* pl.col(name) over a table holding plain values
Col(df, name) == [i \in 1..Len(df[name]) |-> Some(df[name][i])]

\* Expr.shift(): every value moves one row down, the first row becomes null
Shift(c) == [i \in 1..Len(c) |-> IF i = 1 THEN Null ELSE c[i - 1]]

\* a - b, null when either operand is null
Sub(a, b) ==
    [i \in 1..Len(a) |->
        IF a[i].null \/ b[i].null THEN Null ELSE Some(a[i].v - b[i].v)]

\* Expr.diff(): the difference to the previous row, null in the first row
Diff(c) == Sub(c, Shift(c))

\* c < 0 as a boolean column (1 for true, 0 for false), null stays null
LtZero(c) ==
    [i \in 1..Len(c) |->
        IF c[i].null THEN Null ELSE Some(IF c[i].v < 0 THEN 1 ELSE 0)]

\* c != 0 as a boolean column
NeZero(c) ==
    [i \in 1..Len(c) |->
        IF c[i].null THEN Null ELSE Some(IF c[i].v # 0 THEN 1 ELSE 0)]

\* Expr.fill_null(strategy="zero")
FillNullZero(c) == [i \in 1..Len(c) |-> IF c[i].null THEN Some(0) ELSE c[i]]

NoClip(c, lower_bound) == c

\* Expr.clip(lower_bound=...)
Clip(c, lower_bound) ==
    [i \in 1..Len(c) |->
        IF c[i].null THEN Null
        ELSE Some(IF c[i].v < lower_bound THEN lower_bound ELSE c[i].v)]

RECURSIVE SumTo(_, _)
\* the sum of the non-null cells of c[1..n]
SumTo(c, n) ==
    IF n = 0 THEN 0
    ELSE SumTo(c, n - 1) + (IF c[n].null THEN 0 ELSE c[n].v)

\* Expr.cum_sum(): running sum, null cells stay null
CumSum(c) ==
    [i \in 1..Len(c) |-> IF c[i].null THEN Null ELSE Some(SumTo(c, i))]

First(c) == c[1]

\* Expr.max(): the largest non-null value, null when there is none
Max(c) ==
    LET valid == {i \in 1..Len(c) : ~c[i].null}
    IN  IF valid = {} THEN Null
        ELSE Some(CHOOSE m \in {c[i].v : i \in valid} :
                     \A i \in valid : c[i].v <= m)

\* c + scalar, the scalar broadcast over the rows
AddScalar(c, s) ==
    [i \in 1..Len(c) |->
        IF c[i].null \/ s.null THEN Null ELSE Some(c[i].v + s.v)]

(***************************************************************************)
(* BaseCycler column expressions.  The column dictionary is that of the    *)
(* Neware test table; its capacity counters are in Ah, the default unit,   *)
(* so to_default() scales them by one.                                     *)
(***************************************************************************)
column_dict ==
    [Step |-> "Step Index",
     Current |-> "Current",
     Voltage |-> "Voltage",
     ChargeCapacity |-> "Chg. Cap.",
     DischargeCapacity |-> "DChg. Cap."]

\* column names are a quantity followed by its unit in parentheses
column_name_pattern == "quantity(unit)"

\* the column names that parse under the pattern, with their quantity and unit
ParseTable ==
    ("Current(mA)" :> [quantity |-> "Current", unit |-> "mA"])
        @@ ("Current(A)" :> [quantity |-> "Current", unit |-> "A"])
        @@ ("Voltage(V)" :> [quantity |-> "Voltage", unit |-> "V"])
        @@ ("Chg. Cap.(Ah)" :> [quantity |-> "Chg. Cap.", unit |-> "Ah"])
        @@ ("DChg. Cap.(Ah)" :> [quantity |-> "DChg. Cap.", unit |-> "Ah"])

\* UnitConverter.get_quantity_and_unit: ValueError for a name that does not
\* match the pattern
get_quantity_and_unit(column_name, name_pattern) ==
    IF name_pattern = column_name_pattern /\ column_name \in DOMAIN ParseTable
    THEN [raised |-> "", quantity |-> ParseTable[column_name].quantity,
          unit |-> ParseTable[column_name].unit]
    ELSE [raised |-> "ValueError", quantity |-> "", unit |-> ""]

\* the columns whose name parses to the searched quantity
Matches(columns, search_quantity, name_pattern) ==
    {i \in 1..Len(columns) :
        LET parsed == get_quantity_and_unit(columns[i], name_pattern)
        IN  parsed.raised = "" /\ parsed.quantity = search_quantity}

search_columns_last(columns, search_quantity, name_pattern) ==
    LET found == Matches(columns, search_quantity, name_pattern)
    IN  IF found = {}
        THEN [raised |-> "ValueError", column_name |-> "", unit |-> ""]
        ELSE LET i == CHOOSE k \in found : \A j \in found : j <= k
             IN  [raised |-> "", column_name |-> columns[i],
                  unit |-> ParseTable[columns[i]].unit]

\* BaseCycler.search_columns: the converter of the first column, in list
\* order, whose name parses to the searched quantity; names that do not
\* parse are passed over; ValueError when the loop finds none
search_columns(columns, search_quantity, name_pattern) ==
    LET found == Matches(columns, search_quantity, name_pattern)
    IN  IF found = {}
        THEN [raised |-> "ValueError", column_name |-> "", unit |-> ""]
        ELSE LET i == CHOOSE k \in found : \A j \in found : k <= j
             IN  [raised |-> "", column_name |-> columns[i],
                  unit |-> ParseTable[columns[i]].unit]

\* the default unit is a thousand of the milli-unit
Milli == 1000

\* UnitConverter.to_default(): the column scaled to the default unit of its
\* quantity
to_default(df, converter) ==
    LET column == df[converter.column_name]
    IN  [i \in 1..Len(column) |->
            Some(IF converter.unit = "mA" THEN column[i] \div Milli
                 ELSE column[i])]

\* self._dataframe_columns: imported_dataframe.columns
dataframe_columns(df) == df["columns"]

current(df) ==
    to_default(df, search_columns(dataframe_columns(df), column_dict.Current,
                                  column_name_pattern))

voltage(df) ==
    to_default(df, search_columns(dataframe_columns(df), column_dict.Voltage,
                                  column_name_pattern))

date(df) == Col(df, "Date")

\* Time [s]: seconds elapsed since the first row's Date
time(df) == [i \in 1..Len(df["Date"]) |-> Some(df["Date"][i] - df["Date"][1])]

step_plus_one(df) ==
    [i \in 1..Len(df[column_dict.Step]) |-> Some(df[column_dict.Step][i] + 1)]

\* pl.col(column_dict["Step"]).cast(pl.Int64).alias("Step")
step(df) == Col(df, column_dict.Step)

charge_capacity(df) ==
    to_default(df, search_columns(dataframe_columns(df),
                                  column_dict.ChargeCapacity,
                                  column_name_pattern))

discharge_capacity(df) ==
    to_default(df, search_columns(dataframe_columns(df),
                                  column_dict.DischargeCapacity,
                                  column_name_pattern))

capacity_without_offset(df) ==
    CumSum(Sub(FillNullZero(Clip(Diff(charge_capacity(df)), 0)),
               FillNullZero(Clip(Diff(discharge_capacity(df)), 0))))

capacity_from_ch_dch(df) ==
    LET diff_charge_capacity ==
            FillNullZero(Clip(Diff(charge_capacity(df)), 0))
        diff_discharge_capacity ==
            FillNullZero(Clip(Diff(discharge_capacity(df)), 0))
    IN  AddScalar(CumSum(Sub(diff_charge_capacity, diff_discharge_capacity)),
                  Max(charge_capacity(df)))

capacity(df) == capacity_from_ch_dch(df)

cycle_on_change(df) ==
    CumSum(FillNullZero(NeZero(
        Sub(Col(df, column_dict.Step), Shift(Col(df, column_dict.Step))))))

cycle(df) ==
    CumSum(FillNullZero(LtZero(
        Sub(Col(df, column_dict.Step), Shift(Col(df, column_dict.Step))))))

event_on_decrease(df) ==
    CumSum(FillNullZero(LtZero(
        Sub(Col(df, column_dict.Step), Shift(Col(df, column_dict.Step))))))

event(df) ==
    CumSum(FillNullZero(NeZero(
        Sub(Col(df, column_dict.Step), Shift(Col(df, column_dict.Step))))))

\* the keys of self.required_columns, in the order of the dict literal
required_columns ==
    <<"Date", "Time [s]", "Cycle", "Step", "Event",
      "Current [A]", "Voltage [V]", "Capacity [Ah]">>

\* the quantities __init__ searches for while it builds required_columns,
\* in the order it searches for them
searched_quantities ==
    <<column_dict.Current, column_dict.Voltage,
      column_dict.ChargeCapacity, column_dict.DischargeCapacity>>

\* the quantities that no column of the table carries
NotFound(df) ==
    {q \in {searched_quantities[i] : i \in 1..Len(searched_quantities)} :
        search_columns(dataframe_columns(df), q, column_name_pattern).raised # ""}

\* imported_dataframe.select(list(required_columns.values())): the columns
\* come out in the order of the expressions
Select(df) ==
    [name \in {required_columns[i] : i \in 1..Len(required_columns)}
                  \cup {"columns"} |->
        CASE name = "columns" -> required_columns
          [] name = "Date" -> date(df)
          [] name = "Time [s]" -> time(df)
          [] name = "Cycle" -> cycle(df)
          [] name = "Step" -> step(df)
          [] name = "Event" -> event(df)
          [] name = "Current [A]" -> current(df)
          [] name = "Voltage [V]" -> voltage(df)
          [] name = "Capacity [Ah]" -> capacity(df)]

(***************************************************************************)
(* Imported tables.                                                        *)
(***************************************************************************)
\* the columns of the Neware test table
NewareColumns ==
    <<"Date", "Step Index", "Current(mA)", "Voltage(V)",
      "Chg. Cap.(Ah)", "DChg. Cap.(Ah)">>

Const(n, x) == [i \in 1..n |-> x]

\* a table with the Neware columns; its current and voltage stay constant
Frame(dates, steps, chg, dchg) ==
    ("columns" :> NewareColumns)
        @@ ("Date" :> dates) @@ ("Step Index" :> steps)
        @@ ("Current(mA)" :> Const(Len(steps), 2 * Milli))
        @@ ("Voltage(V)" :> Const(Len(steps), 4))
        @@ ("Chg. Cap.(Ah)" :> chg) @@ ("DChg. Cap.(Ah)" :> dchg)

\* one row a second from StartDate on
Dates(n) == [i \in 1..n |-> StartDate + (i - 1)]

\* tables whose step column varies, the counters standing at zero
StepFrame ==
    \E n \in 1..MaxRows : \E s \in [1..n -> 1..MaxStep] :
        imported_dataframe = Frame(Dates(n), s, Const(n, 0), Const(n, 0))

\* tables whose capacity counters vary within one step
CapFrame ==
    \E n \in 1..MaxCapRows :
        \E chg \in [1..n -> 0..MaxCap], dchg \in [1..n -> 0..MaxCap] :
            imported_dataframe = Frame(Dates(n), Const(n, 1), chg, dchg)

\* the table of test_process_dataframe
TestFrame ==
    Frame(Dates(6), <<1, 2, 1, 2, 4, 5>>,
          <<0, 20, 0, 0, 0, 0>>, <<0, 0, 10, 20, 20, 20>>)

\* the four-row table of the end-to-end scenario
ScenarioFrame ==
    Frame(Dates(4), <<3, 4, 1, 2>>, <<0, 0, 0, 20>>, <<10, 20, 0, 0>>)

\* the columns a table may or may not have beside Date and Step Index
OptionalColumns ==
    {"Current(mA)", "Current(A)", "Voltage(V)", "Chg. Cap.(Ah)", "DChg. Cap.(Ah)"}

\* the test table with a second current column, in amperes
TestData == TestFrame @@ ("Current(A)" :> Const(6, 3))

\* the test table with some of its columns, in some order
ColumnsFrame ==
    \E k \in 0..Cardinality(OptionalColumns) :
        \E others \in [1..k -> OptionalColumns] :
            /\ \A i, j \in 1..k : others[i] = others[j] => i = j
            /\ LET columns == <<"Date", "Step Index">> \o others
               IN  imported_dataframe =
                       [c \in {columns[i] : i \in 1..Len(columns)}
                                 \cup {"columns"} |->
                           IF c = "columns" THEN columns ELSE TestData[c]]

(***************************************************************************)
(* Specification Spec: constructing a cycler over an imported table.       *)
(***************************************************************************)
Init ==
    /\ \/ StepFrame
       \/ CapFrame
       \/ imported_dataframe \in {TestFrame, ScenarioFrame}
       \/ ColumnsFrame
    /\ pyprobe_dataframe = <<>>
    /\ glob_files = {}
    /\ file_columns = <<>>
    /\ common_suffix = <<>>
    /\ common_prefix = <<>>
    /\ file_list = <<>>
    /\ NoProcedure
    /\ last_call = "none"
    /\ result = <<>>
    /\ result_data = <<>>
    /\ warned = <<>>
    /\ file_rows = <<>>
    /\ unreadable = {}
    /\ read_log = <<>>
    /\ mb_files = <<>>
    /\ mb_cells = <<>>
    /\ bio_file = <<>>

Raised(exception) == [raised |-> exception, value |-> <<>>]

ConstructDegraded ==
    /\ last_call = "none"
    /\ last_call' = "__init__"
    /\ result' = IF NotFound(imported_dataframe) # {}
                 THEN Raised("ValueError")
                 ELSE [raised |-> "", value |-> <<>>]
    /\ pyprobe_dataframe' =
           IF NotFound(imported_dataframe) # {}
           THEN [name \in {"Date", "columns"} |->
                    IF name = "columns" THEN <<"Date">>
                    ELSE date(imported_dataframe)]
           ELSE Select(imported_dataframe)
    /\ UNCHANGED <<imported_dataframe, glob_files, file_columns, common_suffix,
                   common_prefix, file_list, warned, file_rows, unreadable,
                   read_log>>
    /\ UNCHANGED biologicVars
    /\ UNCHANGED resultVars
    /\ UNCHANGED procedureVars

\* BaseCycler.__init__: a quantity that is not found raises out of the
\* constructor before pyprobe_dataframe is assigned
Construct ==
    /\ last_call = "none"
    /\ last_call' = "__init__"
    /\ IF NotFound(imported_dataframe) # {}
       THEN /\ result' = Raised("ValueError")
            /\ UNCHANGED pyprobe_dataframe
       ELSE /\ result' = [raised |-> "", value |-> <<>>]
            /\ pyprobe_dataframe' = Select(imported_dataframe)
    /\ UNCHANGED <<imported_dataframe, glob_files, file_columns, common_suffix,
                   common_prefix, file_list, warned, file_rows, unreadable,
                   read_log>>
    /\ UNCHANGED biologicVars
    /\ UNCHANGED resultVars
    /\ UNCHANGED procedureVars

Next == Construct

Spec == Init /\ [][Next]_vars

Built == pyprobe_dataframe # <<>>

N == Len(imported_dataframe["Step Index"])

\* the plain values of a canonical column
Out(name) == [i \in 1..N |-> pyprobe_dataframe[name][i].v]

NoNulls(name) == \A i \in 1..N : ~pyprobe_dataframe[name][i].null

(***************************************************************************)
(* Properties of the derived columns.                                      *)
(***************************************************************************)
Steps == imported_dataframe["Step Index"]
Charge == imported_dataframe["Chg. Cap.(Ah)"]
Discharge == imported_dataframe["DChg. Cap.(Ah)"]

\* C1: event[0] = 0 and, for every later row, event grows by exactly one
\* where the step differs from the previous row's (increase or decrease)
\* and stays the same where the step is unchanged.
C1_EventDerivation ==
    Built =>
        /\ NoNulls("Event")
        /\ Out("Event")[1] = 0
        /\ \A i \in 2..N :
              Out("Event")[i] =
                  Out("Event")[i - 1] + (IF Steps[i] # Steps[i - 1] THEN 1 ELSE 0)

\* a constructed table with an increasing, a decreasing and an unchanged step
C1_Witness ==
    /\ Built
    /\ \E i, j, k \in 2..N :
          /\ Steps[i] > Steps[i - 1]
          /\ Steps[j] < Steps[j - 1]
          /\ Steps[k] = Steps[k - 1]
          /\ Out("Event")[N] = 2

\* C2: cycle[0] = 0 and, for every later row, cycle grows by exactly one
\* where the step is lower than the previous row's; an increase or an
\* unchanged step never increments it.
C2_CycleDerivation ==
    Built =>
        /\ NoNulls("Cycle")
        /\ Out("Cycle")[1] = 0
        /\ \A i \in 2..N :
              Out("Cycle")[i] =
                  Out("Cycle")[i - 1] + (IF Steps[i] < Steps[i - 1] THEN 1 ELSE 0)

\* a constructed table whose step rises, stays and falls, counted as one cycle
C2_Witness ==
    /\ Built
    /\ \E i, j, k \in 2..N :
          /\ Steps[i] > Steps[i - 1]
          /\ Steps[j] < Steps[j - 1]
          /\ Steps[k] = Steps[k - 1]
          /\ Out("Cycle")[N] = 1

\* the clipped counter increments as section 4.3 of the specification
\* writes them
Increment(counter, j) ==
    IF j = 1 THEN 0
    ELSE IF counter[j] - counter[j - 1] > 0 THEN counter[j] - counter[j - 1]
    ELSE 0

RECURSIVE IncrementsTo(_, _)
IncrementsTo(counter, i) ==
    IF i = 0 THEN 0 ELSE IncrementsTo(counter, i - 1) + Increment(counter, i)

Largest(counter) ==
    CHOOSE m \in {counter[i] : i \in 1..Len(counter)} :
        \A i \in 1..Len(counter) : counter[i] <= m

\* C3: capacity[i] is the sum over j <= i of the clipped charge increment
\* minus the clipped discharge increment, plus max(charge); the table of
\* test_process_dataframe gives [20, 40, 30, 20, 20, 20].
C3_CapacitySynthesis ==
    Built =>
        /\ NoNulls("Capacity [Ah]")
        /\ \A i \in 1..N :
              Out("Capacity [Ah]")[i] =
                  IncrementsTo(Charge, i) - IncrementsTo(Discharge, i)
                      + Largest(Charge)
        /\ imported_dataframe = TestFrame =>
              Out("Capacity [Ah]") = <<20, 40, 30, 20, 20, 20>>

\* the test table, whose charge counter resets, has been processed
C3_Witness ==
    /\ Built
    /\ imported_dataframe = TestFrame
    /\ \E i \in 2..N : Charge[i] < Charge[i - 1]

\* C4 as claimed: no element of the synthesized capacity is negative.
C4_NeverNegative ==
    Built => \A i \in 1..N : Out("Capacity [Ah]")[i] >= 0

\* C4 as amended: the series starts at max(charge) >= 0 and is non-negative
\* at every row up to which the discharge increments sum to at most
\* max(charge).
C4_AnchoredAtMaxCharge ==
    Built =>
        /\ Out("Capacity [Ah]")[1] = Largest(Charge)
        /\ Out("Capacity [Ah]")[1] >= 0
        /\ \A i \in 1..N :
              IncrementsTo(Discharge, i) <= Largest(Charge)
                  => Out("Capacity [Ah]")[i] >= 0

\* a log that starts mid-charge and then discharges no more than max(charge)
C4_Witness ==
    /\ Built
    /\ Charge[1] > 0
    /\ \E i \in 2..N :
          /\ IncrementsTo(Discharge, i) > 0
          /\ IncrementsTo(Discharge, i) <= Largest(Charge)
          /\ Out("Capacity [Ah]")[i] < Out("Capacity [Ah]")[1]

Unchanged(counter, i, k) == \A j \in i..k : counter[j] = counter[j - 1]

\* C5: where the charge counter resets the capacity does not drop because
\* of the reset, and while the discharge counter stays unchanged every
\* later capacity is >= the pre-reset value; symmetrically, where the
\* discharge counter resets and the charge counter stays unchanged, no
\* later capacity exceeds the pre-reset value.
C5_ResetInsensitive ==
    Built =>
        \A i \in 2..N :
            /\ Charge[i] < Charge[i - 1] =>
                  \A k \in i..N :
                      Unchanged(Discharge, i, k) =>
                          Out("Capacity [Ah]")[k] >= Out("Capacity [Ah]")[i - 1]
            /\ Discharge[i] < Discharge[i - 1] =>
                  \A k \in i..N :
                      Unchanged(Charge, i, k) =>
                          Out("Capacity [Ah]")[k] <= Out("Capacity [Ah]")[i - 1]

\* a charge counter that resets and then accumulates again while the
\* discharge counter stands still
C5_Witness ==
    /\ Built
    /\ \E i \in 2..(N - 1) :
          /\ Charge[i] < Charge[i - 1]
          /\ Charge[i + 1] > Charge[i]
          /\ Unchanged(Discharge, i, i + 1)
          /\ Out("Capacity [Ah]")[i] = Out("Capacity [Ah]")[i - 1]
          /\ Out("Capacity [Ah]")[i + 1] > Out("Capacity [Ah]")[i - 1]

\* C6 as claimed: the scenario table gives Time [0,1,2,3], Step [1,2,3,4]
\* and Capacity [20,40,30,20].
C6_ScenarioAsClaimed ==
    (Built /\ imported_dataframe = ScenarioFrame) =>
        /\ Out("Time [s]") = <<0, 1, 2, 3>>
        /\ Out("Step") = <<1, 2, 3, 4>>
        /\ Out("Capacity [Ah]") = <<20, 40, 30, 20>>

\* C6 as amended: the scenario table gives Time [0,1,2,3], Step [3,4,1,2]
\* (the steps as they are, row by row) and Capacity [20,10,10,30].
C6_Scenario ==
    (Built /\ imported_dataframe = ScenarioFrame) =>
        /\ Out("Time [s]") = <<0, 1, 2, 3>>
        /\ Out("Step") = <<3, 4, 1, 2>>
        /\ Out("Capacity [Ah]") = <<20, 10, 10, 30>>

\* the scenario table has been processed
C6_Witness == Built /\ imported_dataframe = ScenarioFrame

(***************************************************************************)
(* Properties of the constructor's column search.                          *)
(***************************************************************************)
\* column i of the imported table parses to quantity q
Carries(i, q) ==
    /\ imported_dataframe["columns"][i] \in DOMAIN ParseTable
    /\ ParseTable[imported_dataframe["columns"][i]].quantity = q

Lacks(q) == \A i \in 1..Len(imported_dataframe["columns"]) : ~Carries(i, q)

Quantities == {"Current", "Voltage", "Chg. Cap.", "DChg. Cap."}

\* C15: search_columns returns the converter of the first column, in list
\* order, whose name parses to the searched quantity, passing over the names
\* that do not parse; when no column matches it raises ValueError and
\* returns nothing.  The constructed table's current is read from that
\* first column.
C15_SearchColumns ==
    last_call = "__init__" =>
        LET columns == imported_dataframe["columns"]
        IN  /\ \A q \in Quantities :
                  LET found == search_columns(columns, q, column_name_pattern)
                  IN  IF Lacks(q)
                      THEN /\ found.raised = "ValueError"
                           /\ found.column_name = ""
                           /\ result.raised = "ValueError"
                      ELSE /\ found.raised = ""
                           /\ \E i \in 1..Len(columns) :
                                 /\ Carries(i, q)
                                 /\ \A j \in 1..(i - 1) : ~Carries(j, q)
                                 /\ found.column_name = columns[i]
            /\ Built =>
                  \E i \in 1..Len(columns) :
                      /\ Carries(i, "Current")
                      /\ \A j \in 1..(i - 1) : ~Carries(j, "Current")
                      /\ \A r \in 1..N :
                            pyprobe_dataframe["Current [A]"][r].v =
                                IF columns[i] = "Current(mA)"
                                THEN imported_dataframe[columns[i]][r] \div Milli
                                ELSE imported_dataframe[columns[i]][r]

\* a table whose current in amperes comes before its current in
\* milliamperes, after two names that do not parse, has been constructed
C15_Witness ==
    /\ Built
    /\ \E i, j \in 1..Len(imported_dataframe["columns"]) :
          /\ i < j
          /\ imported_dataframe["columns"][i] = "Current(A)"
          /\ imported_dataframe["columns"][j] = "Current(mA)"
    /\ pyprobe_dataframe["Current [A]"][1].v = 3

\* C16: when the imported table has no column for the current, the
\* voltage, the charge counter or the discharge counter, __init__ raises
\* and pyprobe_dataframe is never assigned, whole or in part.
C16_MissingQuantityAborts ==
    (last_call = "__init__" /\ \E q \in Quantities : Lacks(q)) =>
        /\ result.raised = "ValueError"
        /\ pyprobe_dataframe = <<>>

\* the constructor has raised on a table that has every quantity but the
\* discharge counter
C16_Witness ==
    /\ last_call = "__init__"
    /\ result.raised = "ValueError"
    /\ Lacks("DChg. Cap.")
    /\ \A q \in Quantities \ {"DChg. Cap."} : ~Lacks(q)
    /\ pyprobe_dataframe = <<>>

\* C17: the canonical table has exactly the columns Date, Time [s], Step,
\* Cycle, Event, Current [A], Voltage [V], Capacity [Ah], in this order.
C17_SchemaOrder ==
    Built =>
        pyprobe_dataframe["columns"] =
            <<"Date", "Time [s]", "Step", "Cycle", "Event",
              "Current [A]", "Voltage [V]", "Capacity [Ah]">>

(***************************************************************************)
(* Strings are sequences of one-character strings.                         *)
(***************************************************************************)
Digits == <<"0", "1", "2", "3", "4", "5", "6", "7", "8", "9">>

IsDigit(ch) == \E d \in 1..10 : Digits[d] = ch

DigitValue(ch) == (CHOOSE d \in 1..10 : Digits[d] = ch) - 1

RECURSIVE IntToStr(_)
\* str(k) for k >= 0
IntToStr(k) ==
    IF k < 10 THEN <<Digits[k + 1]>>
    ELSE IntToStr(k \div 10) \o <<Digits[(k % 10) + 1]>>

RECURSIVE StrToInt(_)
\* int(s) for a non-empty run of decimal digits
StrToInt(s) ==
    IF Len(s) = 1 THEN DigitValue(s[1])
    ELSE 10 * StrToInt(SubSeq(s, 1, Len(s) - 1)) + DigitValue(s[Len(s)])

StartsWith(s, t) == Len(t) <= Len(s) /\ SubSeq(s, 1, Len(t)) = t

\* os.path.commonprefix: the longest string every name starts with
commonprefix(m) ==
    IF m = <<>> THEN <<>>
    ELSE LET lens == {n \in 0..Len(m[1]) :
                         \A i \in 1..Len(m) : StartsWith(m[i], SubSeq(m[1], 1, n))}
             longest == CHOOSE n \in lens : \A k \in lens : k <= n
         IN  SubSeq(m[1], 1, longest)

RECURSIVE Replace(_, _)
\* str.replace(old, ""): every non-overlapping occurrence of old is removed,
\* scanning from the left; an empty old leaves the string as it is
Replace(s, old) ==
    IF old = <<>> \/ s = <<>> THEN s
    ELSE IF StartsWith(s, old)
         THEN Replace(SubSeq(s, Len(old) + 1, Len(s)), old)
         ELSE <<s[1]>> \o Replace(Tail(s), old)

\* str.find(sub): the 0-based index of the first occurrence, -1 if none
Find(s, sub) ==
    LET at == {i \in 0..Len(s) : StartsWith(SubSeq(s, i + 1, Len(s)), sub)}
    IN  IF at = {} THEN -1 ELSE CHOOSE i \in at : \A j \in at : i <= j

\* re.search(r"\d+", s).group(): the first maximal run of digits, <<>> when
\* the string has no digit (no match)
FirstDigits(s) ==
    LET at == {i \in 1..Len(s) : IsDigit(s[i])}
    IN  IF at = {} THEN <<>>
        ELSE LET first == CHOOSE i \in at : \A j \in at : i <= j
                 ends == {e \in first..Len(s) :
                             \A j \in first..e : IsDigit(s[j])}
                 last == CHOOSE e \in ends : \A k \in ends : k <= e
             IN  SubSeq(s, first, last)

RECURSIVE basename(_)
\* os.path.basename: what follows the last "/"
basename(path) ==
    IF Find(path, <<"/">>) = -1 THEN path
    ELSE basename(SubSeq(path, Find(path, <<"/">>) + 2, Len(path)))

(***************************************************************************)
(* BaseCycler.sort_files and sort_key.                                     *)
(***************************************************************************)
\* sort_key with self.common_prefix = prefix and self.common_suffix = suffix
sort_key(filepath, prefix, suffix) ==
    LET stripped_filepath == Replace(filepath, prefix)
        suffix_index == Find(stripped_filepath, suffix)
        truncated == IF suffix_index # -1
                     THEN SubSeq(stripped_filepath, 1, suffix_index)
                     ELSE stripped_filepath
        match == FirstDigits(truncated)
    IN  IF match # <<>> THEN StrToInt(match) ELSE 0

RECURSIVE Keys(_, _, _, _)
\* the sort key of every element from index i on, computed once each
Keys(list, prefix, suffix, i) ==
    IF i > Len(list) THEN <<>>
    ELSE <<sort_key(list[i], prefix, suffix)>> \o Keys(list, prefix, suffix, i + 1)

Drop(seq, m) == SubSeq(seq, 1, m - 1) \o SubSeq(seq, m + 1, Len(seq))

RECURSIVE sorted(_, _)
\* sorted(list, key=...) with keys[i] the key of list[i]: a stable sort,
\* equal keys keep their input order
sorted(list, keys) ==
    IF list = <<>> THEN <<>>
    ELSE LET m == CHOOSE i \in 1..Len(list) :
                      /\ \A j \in 1..Len(list) : keys[i] <= keys[j]
                      /\ \A j \in 1..(i - 1) : keys[j] # keys[i]
         IN  <<list[m]>> \o sorted(Drop(list, m), Drop(keys, m))

as_listed(list, suffix) == list

sort_files(list, suffix) ==
    sorted(list, Keys(list, commonprefix(list), suffix, 1))

(***************************************************************************)
(* BaseCycler.dataframe_list and imported_dataframe.  A per-file table is  *)
(* its ordered column names, its rows and the file it was read from.       *)
(***************************************************************************)
read_file(file, contents, rows) ==
    [file |-> file, columns |-> contents[file], rows |-> rows[file]]

Range(seq) == {seq[i] : i \in 1..Len(seq)}

first_columns(list) == IF list = <<>> THEN {} ELSE Range(list[1].columns)

\* set([col for df in list for col in df.columns])
all_columns(list) == UNION {Range(list[i].columns) : i \in 1..Len(list)}

FewerOrAsMany(df, union) == Len(df.columns) <= Cardinality(union)

\* len(list[i].columns) < len(all_columns)
HasMissingColumns(df, union) == Len(df.columns) < Cardinality(union)

indices_to_remove(list) ==
    {i \in 1..Len(list) : HasMissingColumns(list[i], all_columns(list))}

RECURSIVE Without(_, _, _)
\* [df for i, df in enumerate(list) if i not in remove], from index i on
Without(list, remove, i) ==
    IF i > Len(list) THEN <<>>
    ELSE (IF i \in remove THEN <<>> ELSE <<list[i]>>)
             \o Without(list, remove, i + 1)

RECURSIVE Warnings(_, _, _)
\* the base names warned about, in loop order
Warnings(files, remove, i) ==
    IF i > Len(files) THEN <<>>
    ELSE (IF i \in remove THEN <<basename(files[i])>> ELSE <<>>)
             \o Warnings(files, remove, i + 1)

\* the tables read from the sorted files
ReadAll(files, contents, rows) ==
    [i \in 1..Len(files) |-> read_file(files[i], contents, rows)]

NoFailure(files, bad) == 0

\* the index of the first file whose read raises, 0 when every read succeeds:
\* the exception leaves the list comprehension at that file
FirstFailure(files, bad) ==
    LET failing == {i \in 1..Len(files) : files[i] \in bad}
    IN  IF failing = {} THEN 0
        ELSE CHOOSE i \in failing : \A j \in failing : i <= j

\* the returned list, the base names warned about and the files read; an
\* exception of read_file propagates
dataframe_list(listing, suffix, contents, rows, bad) ==
    LET files == sort_files(listing, suffix)
        failed == FirstFailure(files, bad)
        list == ReadAll(files, contents, rows)
        remove == indices_to_remove(list)
    IN  IF failed # 0
        THEN [raised |-> "ReadError", value |-> <<>>, warned |-> <<>>,
              read |-> SubSeq(files, 1, failed)]
        ELSE [raised |-> "", value |-> Without(list, remove, 1),
              warned |-> Warnings(files, remove, 1), read |-> files]

RECURSIVE Stack(_, _)
\* the rows of list[i..] laid end to end
Stack(list, i) ==
    IF i > Len(list) THEN <<>> ELSE list[i].rows \o Stack(list, i + 1)

\* pl.concat(list, how="vertical"): an empty list and tables whose column
\* names differ in some position are errors
concat(list) ==
    IF list = <<>> THEN [raised |-> "ValueError", value |-> <<>>]
    ELSE IF \E i \in 1..Len(list) : list[i].columns # list[1].columns
    THEN [raised |-> "ShapeError", value |-> <<>>]
    ELSE [raised |-> "",
          value |-> [columns |-> list[1].columns,
                     files |-> [i \in 1..Len(list) |-> list[i].file],
                     rows |-> Stack(list, 1)]]

Returned(value) == [raised |-> "", value |-> value]

(***************************************************************************)
(* File sets on disk.                                                      *)
(***************************************************************************)
Ext == <<".", "c", "s", "v">>

Names == {<<"f">>, <<"f", "5">>, <<"1">>}

Stems == {<<"a">>, <<"b">>, <<"a", "1">>, <<"b", "2">>}

\* the column names a file may carry, in file-native order
ColumnLists == {<<"A">>, <<"B">>, <<"A", "B">>}

Unindexed(name) == name \o Ext

Indexed(name, k) == name \o <<"_">> \o IntToStr(k) \o Ext

\* name.csv, name_k.csv for k in indices
SplitSet(name, indices) == {Unindexed(name)} \cup {Indexed(name, k) : k \in indices}

IndexSets == {K \in SUBSET (1..MaxFileIndex) : Cardinality(K) < MaxFiles}

\* every file read gives the same two columns
SameColumns(files) == [f \in files |-> <<"A", "B">>]

\* row i of a file is told apart by the file and its line
Rows(file, height) == [i \in 1..height |-> [file |-> file, line |-> i]]

\* every file holds one row
OneRow(files) == [f \in files |-> Rows(f, 1)]

\* the orders in which glob.glob may list a set of files
Listings(files) ==
    {l \in [1..Cardinality(files) -> files] : Range(l) = files}

\* a procedure split over several files
SplitDisk ==
    \E name \in Names, K \in IndexSets :
        /\ glob_files = SplitSet(name, K)
        /\ file_columns = SameColumns(SplitSet(name, K))
        /\ file_list \in Listings(SplitSet(name, K))
        /\ file_rows = OneRow(SplitSet(name, K))
        /\ unreadable = {}

\* any files a glob may match
AnyDisk ==
    \E S \in {T \in SUBSET Stems : T # {} /\ Cardinality(T) <= MaxFiles} :
        LET files == {stem \o Ext : stem \in S}
        IN  /\ glob_files = files
            /\ file_columns = SameColumns(files)
            /\ file_list \in Listings(files)
            /\ file_rows = OneRow(files)
            /\ unreadable = {}

\* a split procedure whose files differ in their columns
SchemaDisk ==
    \E n \in 0..(MaxFiles - 1) :
        LET files == SplitSet(<<"f">>, 1..n)
        IN  /\ glob_files = files
            /\ file_columns \in [files -> ColumnLists]
            /\ file_list \in Listings(files)
            /\ file_rows = OneRow(files)
            /\ unreadable = {}

\* a split procedure whose files differ in their number of rows
RowsDisk ==
    \E n \in 0..(MaxFiles - 1) :
        LET files == SplitSet(<<"f">>, 1..n)
        IN  /\ glob_files = files
            /\ file_columns = SameColumns(files)
            /\ file_list \in Listings(files)
            /\ \E height \in [files -> 0..MaxFileRows] :
                  file_rows = [f \in files |-> Rows(f, height[f])]
            /\ unreadable = {}

\* a split procedure some of whose files cannot be read
FaultyDisk ==
    \E n \in 0..(MaxFiles - 1) :
        LET files == SplitSet(<<"f">>, 1..n)
        IN  /\ glob_files = files
            /\ file_columns = SameColumns(files)
            /\ file_list \in Listings(files)
            /\ file_rows = OneRow(files)
            /\ unreadable \in (SUBSET files) \ {{}}

(***************************************************************************)
(* Specification SpecAssemble: assembling the files of a procedure.        *)
(***************************************************************************)
InitAssemble ==
    /\ imported_dataframe = <<>>
    /\ pyprobe_dataframe = <<>>
    /\ \/ SplitDisk
       \/ AnyDisk
       \/ SchemaDisk
       \/ RowsDisk
       \/ FaultyDisk
    /\ common_suffix = Ext
    /\ common_prefix = <<>>
    /\ NoProcedure
    /\ last_call = "none"
    /\ result = <<>>
    /\ result_data = <<>>
    /\ warned = <<>>
    /\ read_log = <<>>
    /\ mb_files = <<>>
    /\ mb_cells = <<>>
    /\ bio_file = <<>>

diskVars == <<glob_files, file_columns, file_list, common_suffix,
              file_rows, unreadable>>


\* sort_files(file_list) on the listing of the matched files
SortFiles ==
    /\ common_prefix' = commonprefix(file_list)
    /\ result' = Returned(sort_files(file_list, common_suffix))
    /\ last_call' = "sort_files"
    /\ warned' = <<>>
    /\ read_log' = <<>>
    /\ UNCHANGED diskVars
    /\ UNCHANGED cyclerVars
    /\ UNCHANGED biologicVars
    /\ UNCHANGED resultVars
    /\ UNCHANGED procedureVars

\* the dataframe_list property
DataframeList ==
    LET call == dataframe_list(file_list, common_suffix, file_columns,
                               file_rows, unreadable)
    IN  /\ common_prefix' = commonprefix(file_list)
        /\ result' = IF call.raised = "" THEN Returned(call.value)
                      ELSE Raised(call.raised)
        /\ warned' = call.warned
        /\ read_log' = call.read
        /\ last_call' = "dataframe_list"
        /\ UNCHANGED diskVars
        /\ UNCHANGED cyclerVars
        /\ UNCHANGED biologicVars
        /\ UNCHANGED resultVars
    /\ UNCHANGED resultVars
        /\ UNCHANGED procedureVars
    /\ UNCHANGED procedureVars

\* the imported_dataframe property
ImportedDataframe ==
    LET call == dataframe_list(file_list, common_suffix, file_columns,
                               file_rows, unreadable)
    IN  /\ common_prefix' = commonprefix(file_list)
        /\ result' = IF call.raised = "" THEN concat(call.value)
                      ELSE Raised(call.raised)
        /\ warned' = call.warned
        /\ read_log' = call.read
        /\ last_call' = "imported_dataframe"
        /\ UNCHANGED diskVars
        /\ UNCHANGED cyclerVars
        /\ UNCHANGED biologicVars
        /\ UNCHANGED resultVars
    /\ UNCHANGED resultVars
        /\ UNCHANGED procedureVars
    /\ UNCHANGED procedureVars

NextAssemble == SortFiles \/ DataframeList \/ ImportedDataframe

SpecAssemble == InitAssemble /\ [][NextAssemble]_vars

(***************************************************************************)
(* Properties of the file assembly.                                        *)
(***************************************************************************)
RECURSIVE Ascending(_, _)
\* the indexed files of a split procedure by ascending index
Ascending(name, indices) ==
    IF indices = {} THEN <<>>
    ELSE LET least == CHOOSE k \in indices : \A j \in indices : k <= j
         IN  <<Indexed(name, least)>> \o Ascending(name, indices \ {least})

\* C7: sort_files on the files name.csv, name_k.csv of a split procedure,
\* listed in any order, returns the unindexed file first and then the
\* indexed files by ascending numeric index.
C7_SplitSetOrder ==
    (last_call = "sort_files" /\ common_suffix = Ext) =>
        \A name \in Names, K \in IndexSets :
            glob_files = SplitSet(name, K) =>
                result.value = <<Unindexed(name)>> \o Ascending(name, K)

\* C8: sort_files returns the same list for every listing order of the
\* matched files.
C8_ListingIndependent ==
    last_call = "sort_files" =>
        \A listing \in Listings(glob_files) :
            sort_files(listing, common_suffix) = result.value

\* the union of the column names of all files read
UnionOfColumns == UNION {Range(file_columns[f]) : f \in glob_files}

TooFewColumns(f) == Len(file_columns[f]) < Cardinality(UnionOfColumns)

EnoughColumns(f) == ~TooFewColumns(f)

\* C9: dataframe_list drops, with a warning, exactly the files whose
\* column count is strictly less than the size of the union of all column
\* names; every other table is returned, in sorted-file order (every file
\* being readable).
C9_SchemaCheck ==
    (last_call = "dataframe_list" /\ unreadable = {}) =>
        LET files == sort_files(file_list, common_suffix)
            kept == SelectSeq(files, EnoughColumns)
        IN  /\ result.raised = ""
            /\ Len(result.value) = Len(kept)
            /\ \A i \in 1..Len(kept) :
                  /\ result.value[i].file = kept[i]
                  /\ result.value[i].columns = file_columns[kept[i]]
            /\ warned = SelectSeq(files, TooFewColumns)

\* dataframe_list has dropped one file between two files it kept
C9_Witness ==
    /\ last_call = "dataframe_list"
    /\ Len(warned) = 1
    /\ Len(result.value) = 2
    /\ \E f \in glob_files :
          /\ TooFewColumns(f)
          /\ sort_key(result.value[1].file, common_prefix, common_suffix)
                 < sort_key(f, common_prefix, common_suffix)
          /\ sort_key(f, common_prefix, common_suffix)
                 < sort_key(result.value[2].file, common_prefix, common_suffix)

\* C10: whenever dataframe_list drops one or more files, imported_dataframe
\* does not raise and returns the concatenation of the remaining files.
C10_MismatchNeverFatal ==
    (last_call = "imported_dataframe" /\ warned # <<>>) =>
        /\ result.raised = ""
        /\ Range(result.value.files) = {f \in glob_files : EnoughColumns(f)}

\* the place of a file among the sorted files
Place(files, f) == CHOOSE i \in 1..Len(files) : files[i] = f

C18_ReadsIsolated ==
    (last_call \in {"dataframe_list", "imported_dataframe"} /\ unreadable # {}) =>
        Range(read_log) = glob_files

\* C18 as amended: a failed read is not isolated; the exception propagates
\* out of dataframe_list and imported_dataframe, the files sorted before the
\* failing file have been read and the files sorted after it never are.
C18_ReadFailurePropagates ==
    (last_call \in {"dataframe_list", "imported_dataframe"} /\ unreadable # {}) =>
        LET files == sort_files(file_list, common_suffix)
        IN  /\ result.raised = "ReadError"
            /\ result.value = <<>>
            /\ \E k \in 1..Len(files) :
                  /\ files[k] \in unreadable
                  /\ \A j \in 1..(k - 1) : files[j] \notin unreadable
                  /\ read_log = SubSeq(files, 1, k)

\* the first of three files could not be read and the other two were not
\* read either
C18_Witness ==
    /\ last_call = "imported_dataframe"
    /\ Cardinality(glob_files) = 3
    /\ Cardinality(unreadable) = 1
    /\ Len(read_log) = 1
    /\ read_log[1] \in unreadable

\* the key of the documented algorithm: the leading common prefix alone is
\* removed, the rest is cut at the first occurrence of the suffix marker, and
\* the first run of digits of what is left is the key, 0 without digits
DocumentedKey(filepath, prefix, suffix) ==
    LET rest == SubSeq(filepath, Len(prefix) + 1, Len(filepath))
        suffix_index == Find(rest, suffix)
        cut == IF suffix_index # -1 THEN SubSeq(rest, 1, suffix_index) ELSE rest
    IN  IF FirstDigits(cut) # <<>> THEN StrToInt(FirstDigits(cut)) ELSE 0

\* C23: the sort key of every file is the integer of the documented
\* algorithm, for every set of files.
C23_DocumentedKey ==
    last_call = "sort_files" =>
        \A f \in glob_files :
            sort_key(f, common_prefix, common_suffix)
                = DocumentedKey(f, commonprefix(file_list), common_suffix)

ColumnSet(f) == Range(file_columns[f])

\* the files of the tables dataframe_list returned
Survivors == {result.value[i].file : i \in 1..Len(result.value)}

\* C26: after the schema check every surviving table has the same set of
\* column names, the union of the column names of all files read; of two
\* files with different column sets at least one is dropped, and both are
\* when their column sets differ and are equally large.
C26_SurvivorsShareColumns ==
    (last_call = "dataframe_list" /\ result.raised = "") =>
        /\ \A i \in 1..Len(result.value) :
              Range(result.value[i].columns) = UnionOfColumns
        /\ \A f, g \in glob_files :
              ColumnSet(f) # ColumnSet(g) =>
                  /\ f \notin Survivors \/ g \notin Survivors
                  /\ Cardinality(ColumnSet(f)) = Cardinality(ColumnSet(g)) =>
                         f \notin Survivors /\ g \notin Survivors

\* two files with one column each, not the same one, have both been dropped
\* and a third file with both columns has been kept
C26_Witness ==
    /\ last_call = "dataframe_list"
    /\ result.raised = ""
    /\ Len(result.value) = 1
    /\ \E f, g \in glob_files :
          /\ ColumnSet(f) # ColumnSet(g)
          /\ Cardinality(ColumnSet(f)) = 1
          /\ Cardinality(ColumnSet(g)) = 1
          /\ f \notin Survivors
          /\ g \notin Survivors

(***************************************************************************)
(* BiologicMB: the tables of a Modulo Bat procedure, one per file, each     *)
(* with a step counter Ns that starts again from zero.  A row of the       *)
(* concatenated table is its "MB File" tag, its Ns and, after the join,    *)
(* its Max_Step, and a numeric column Temperature whose cells may be null. *)
(* A table is its columns Ns and Temperature.                              *)
(***************************************************************************)
\* df.with_columns(pl.lit(i).alias("MB File")) for i, df in enumerate(list)
WithMBFile(list) ==
    [k \in 1..Len(list) |->
        [rows |-> [r \in 1..Len(list[k].Ns) |->
                      [MBFile |-> k - 1, Ns |-> list[k].Ns[r],
                       Temperature |-> list[k].Temperature[r]]]]]

\* df.group_by("MB File").agg((Ns.max() + 1).alias("Max_Step")): one group
\* for every tag that occurs in the table
GroupMax(df) ==
    LET groups == {df[r].MBFile : r \in 1..Len(df)}
        largest(g) ==
            CHOOSE m \in {df[r].Ns : r \in {q \in 1..Len(df) : df[q].MBFile = g}} :
                \A r \in 1..Len(df) : df[r].MBFile = g => df[r].Ns <= m
    IN  [g \in groups |-> largest(g) + 1]

RECURSIVE SumUpTo(_, _)
\* the sum of table[h] over the keys h <= g
SumUpTo(table, g) ==
    IF g < 0 THEN 0
    ELSE (IF g \in DOMAIN table THEN table[g] ELSE 0) + SumUpTo(table, g - 1)

\* sort("MB File") and with_columns(pl.col("Max_Step").cum_sum())
CumSumByFile(max_steps) ==
    [g \in DOMAIN max_steps |-> SumUpTo(max_steps, g)]

\* with_columns(pl.col("MB File") + 1)
NextFile(max_steps) ==
    [g \in {h + 1 : h \in DOMAIN max_steps} |-> max_steps[g - 1]]

\* df.join(max_steps, on="MB File", how="left").fill_null(0): the rows keep
\* their order; a row whose tag is no key of max_steps gets a null Max_Step;
\* fill_null then puts zero in every null cell of every numeric column
JoinFillNull(df, max_steps) ==
    [r \in 1..Len(df) |->
        [MBFile |-> df[r].MBFile, Ns |-> df[r].Ns,
         Temperature |-> IF df[r].Temperature.null THEN Some(0)
                         ELSE df[r].Temperature,
         Max_Step |-> IF df[r].MBFile \in DOMAIN max_steps
                      THEN max_steps[df[r].MBFile] ELSE 0]]

\* BiologicMB.apply_step_correction
apply_step_correction(df) ==
    LET max_steps == NextFile(CumSumByFile(GroupMax(df)))
        df_with_max_step == JoinFillNull(df, max_steps)
    IN  [r \in 1..Len(df) |->
            [MBFile |-> df_with_max_step[r].MBFile,
             Ns |-> df_with_max_step[r].Ns + df_with_max_step[r].Max_Step,
             Temperature |-> df_with_max_step[r].Temperature,
             Max_Step |-> df_with_max_step[r].Max_Step]]

\* BiologicMB.get_imported_dataframe: tag, concatenate, correct
get_imported_dataframe(list) ==
    IF list = <<>> THEN Raised("ValueError")
    ELSE [raised |-> "",
          value |-> apply_step_correction(Stack(WithMBFile(list), 1))]

RECURSIVE ConcatNs(_, _)
\* the Ns column of the plain concatenation, BaseCycler.imported_dataframe
ConcatNs(list, k) ==
    IF k > Len(list) THEN <<>> ELSE list[k] \o ConcatNs(list, k + 1)

\* a table made of its step column alone, under the name the column
\* dictionary gives it
StepTable(steps) == (column_dict.Step :> steps)

\* the tables handed to get_imported_dataframe
MBList ==
    [k \in 1..Len(mb_files) |-> [Ns |-> mb_files[k], Temperature |-> mb_cells[k]]]

\* a temperature reading in every row
Readings(files) ==
    [k \in 1..Len(files) |-> [r \in 1..Len(files[k]) |-> Some(20)]]

\* tables of one row each, some of them without a temperature reading
NullTables ==
    \E n \in 1..MaxMBFiles :
        /\ mb_files = [k \in 1..n |-> <<0>>]
        /\ \E missing \in SUBSET (1..n) :
              /\ missing # {}
              /\ mb_cells = [k \in 1..n |->
                                <<IF k \in missing THEN Null ELSE Some(20)>>]

\* up to MaxMBFiles tables, some of them possibly without rows
MBTables ==
    \E n \in 0..MaxMBFiles, total \in 0..MaxMBRows :
        \E ns \in [1..total -> 0..MaxNs], file \in [1..total -> 1..n] :
            /\ \A r \in 1..(total - 1) : file[r] <= file[r + 1]
            /\ mb_files =
                   [k \in 1..n |->
                       LET mine == {r \in 1..total : file[r] = k}
                           first == IF mine = {} THEN 1
                                    ELSE CHOOSE r \in mine : \A q \in mine : r <= q
                       IN  [i \in 1..Cardinality(mine) |-> ns[first + i - 1]]]
            /\ mb_cells = Readings(mb_files)

(***************************************************************************)
(* Biologic.read_file.  A file is its lines and a line is its tokens, the  *)
(* token ":" standing for a colon between two blanks.  The table below the *)
(* header has the single column time/s.                                    *)
(***************************************************************************)
\* the part of the line before the first ":" token
Before(line) ==
    IF \E i \in 1..Len(line) : line[i] = ":"
    THEN SubSeq(line, 1, (CHOOSE i \in 1..Len(line) :
                             line[i] = ":" /\ \A j \in 1..(i - 1) : line[j] # ":") - 1)
    ELSE line

RECURSIVE Split(_)
\* str.split(":"), str.split(" : "): the parts between the separators
Split(line) ==
    IF \E i \in 1..Len(line) : line[i] = ":"
    THEN <<Before(line)>> \o Split(SubSeq(line, Len(Before(line)) + 2, Len(line)))
    ELSE <<line>>

\* int(value.strip()): ValueError unless the value is one numeral
ParseInt(value) ==
    IF Len(value) = 1 /\ \E n \in 0..(MaxHeaderLines + 1) : ToString(n) = value[1]
    THEN [raised |-> "",
          value |-> CHOOSE n \in 0..(MaxHeaderLines + 1) : ToString(n) = value[1]]
    ELSE Raised("ValueError")

\* a second is a million microseconds
MicroPerSecond == 1000000

\* the time stamps that match "%m/%d/%Y %H:%M:%S.%f", as microseconds since
\* the midnight before
Timestamps == ("06/19/2023 00:00:01.000" :> MicroPerSecond)

strptime_or_midnight(value) ==
    IF Len(value) = 1 /\ value[1] \in DOMAIN Timestamps
    THEN [raised |-> "", value |-> Timestamps[value[1]]]
    ELSE [raised |-> "", value |-> 0]

\* datetime.strptime(value.strip(), "%m/%d/%Y %H:%M:%S.%f")
strptime(value) ==
    IF Len(value) = 1 /\ value[1] \in DOMAIN Timestamps
    THEN [raised |-> "", value |-> Timestamps[value[1]]]
    ELSE Raised("ValueError")

\* the readings of time/s, as microseconds
Seconds == ("0" :> 0) @@ ("1" :> MicroPerSecond)
               @@ ("2.25" :> 2 * MicroPerSecond + 250000)

\* the loop over the first n_header_lines lines: the first of them that
\* holds "Acquisition started on", 0 when the loop ends without one
StartTimeLine(file, n_header_lines) ==
    LET holding == {i \in 1..n_header_lines :
                       /\ i <= Len(file)
                       /\ \E t \in 1..Len(file[i]) :
                             file[i][t] = "Acquisition started on"}
    IN  IF holding = {} THEN 0
        ELSE CHOOSE i \in holding : \A j \in holding : i <= j

\* pl.col("time/s").cast(pl.Float64).cast(pl.Duration): the float becomes
\* the whole number of microseconds of the duration
CastDuration(reading) == Seconds[reading] \div MicroPerSecond

WithDateSkippingOneMore(file, n_header_lines, start_time) ==
    [i \in 1..(Len(file) - n_header_lines - 1) |->
        [time |-> file[n_header_lines + 1 + i][1],
         Date |-> CastDuration(file[n_header_lines + 1 + i][1]) + start_time]]

\* scan_csv(skip_rows=n_header_lines - 1) and the Date column: the line
\* n_header_lines names the columns, the lines below it are the rows
WithDate(file, n_header_lines, start_time) ==
    [i \in 1..(Len(file) - n_header_lines) |->
        [time |-> file[n_header_lines + i][1],
         Date |-> CastDuration(file[n_header_lines + i][1]) + start_time]]

\* Biologic.read_file
BiologicReadFile(file) ==
    LET second_line == IF Len(file) >= 2 THEN file[2] ELSE <<>>
        count == Split(second_line)
        n_header_lines == ParseInt(count[2])
        line == StartTimeLine(file, n_header_lines.value)
        start == Split(file[line])
        start_time == strptime(start[2])
    IN  IF Len(count) # 2 THEN Raised("ValueError")
        ELSE IF n_header_lines.raised # "" THEN Raised("ValueError")
        ELSE IF line = 0 THEN Raised("UnboundLocalError")
        ELSE IF Len(start) # 2 THEN Raised("ValueError")
        ELSE IF start_time.raised # "" THEN Raised("ValueError")
        ELSE [raised |-> "",
              value |-> [start_time |-> start_time.value,
                         columns |-> file[n_header_lines.value],
                         rows |-> WithDate(file, n_header_lines.value,
                                           start_time.value)]]

\* the lines a header may hold between its second line and the column names
HeaderLines ==
    {<<"Comment">>,
     <<"Acquisition started on", ":", "06/19/2023 00:00:01.000">>,
     <<"Acquisition started on", ":", "19/06/2023">>,
     <<"Acquisition started on">>}

\* the second line of a file whose header has n lines, well formed or not
SecondLines(n) ==
    {<<"Nb header lines", ":", ToString(n)>>,
     <<"Nb header lines", ":", "many">>,
     <<"Nb header lines">>,
     <<"Nb header lines", ":", ToString(n), ":", ToString(n)>>}

\* a file: title, second line, further header lines, column names, rows
BiologicFile ==
    \E h \in 0..(MaxHeaderLines - 3), d \in 0..MaxDataRows :
        \E second \in SecondLines(h + 3), header \in [1..h -> HeaderLines],
           readings \in [1..d -> DOMAIN Seconds] :
            bio_file = <<<<"BT-Lab ASCII FILE">>, second>> \o header
                           \o <<<<"time/s">>>>
                           \o [i \in 1..d |-> <<readings[i]>>]

(***************************************************************************)
(* Specification SpecBiologic: reading a Biologic file, constructing a     *)
(* cycler over it, and correcting the steps of a Modulo Bat procedure.     *)
(***************************************************************************)
InitBiologic ==
    /\ imported_dataframe = <<>>
    /\ pyprobe_dataframe = <<>>
    /\ glob_files = {}
    /\ file_columns = <<>>
    /\ common_suffix = <<>>
    /\ common_prefix = <<>>
    /\ file_list = <<>>
    /\ NoProcedure
    /\ last_call = "none"
    /\ result = <<>>
    /\ result_data = <<>>
    /\ warned = <<>>
    /\ file_rows = <<>>
    /\ unreadable = {}
    /\ read_log = <<>>
    /\ \/ MBTables /\ bio_file = <<>>
       \/ NullTables /\ bio_file = <<>>
       \/ BiologicFile /\ mb_files = <<>> /\ mb_cells = <<>>

\* Biologic.read_file(filepath)
ReadFile ==
    /\ last_call = "none"
    /\ bio_file # <<>>
    /\ last_call' = "read_file"
    /\ result' = BiologicReadFile(bio_file)
    /\ read_log' = <<"bio_file">>
    /\ UNCHANGED <<imported_dataframe, pyprobe_dataframe, glob_files,
                   file_columns, common_suffix, common_prefix, file_list,
                   warned, file_rows, unreadable>>
    /\ UNCHANGED biologicVars
    /\ UNCHANGED resultVars
    /\ UNCHANGED procedureVars

\* BaseCycler.__init__ of a Biologic cycler over the one file: the
\* exception of read_file leaves dataframe_list, imported_dataframe and the
\* constructor; otherwise the Date column is selected from the table read
ConstructBiologic ==
    /\ last_call = "none"
    /\ bio_file # <<>>
    /\ last_call' = "__init__"
    /\ read_log' = <<"bio_file">>
    /\ LET read == BiologicReadFile(bio_file)
       IN  IF read.raised # ""
           THEN /\ result' = Raised(read.raised)
                /\ UNCHANGED <<imported_dataframe, pyprobe_dataframe>>
           ELSE /\ result' = [raised |-> "", value |-> <<>>]
                /\ imported_dataframe' = read.value.rows
                /\ pyprobe_dataframe' =
                       [columns |-> required_columns,
                        Date |-> [i \in 1..Len(read.value.rows) |->
                                     read.value.rows[i].Date]]
    /\ UNCHANGED <<glob_files, file_columns, common_suffix, common_prefix,
                   file_list, warned, file_rows, unreadable>>
    /\ UNCHANGED biologicVars
    /\ UNCHANGED resultVars
    /\ UNCHANGED procedureVars

\* BiologicMB.get_imported_dataframe(dataframe_list)
GetImportedDataframe ==
    /\ last_call = "none"
    /\ bio_file = <<>>
    /\ last_call' = "get_imported_dataframe"
    /\ result' = get_imported_dataframe(MBList)
    /\ UNCHANGED <<imported_dataframe, pyprobe_dataframe, glob_files,
                   file_columns, common_suffix, common_prefix, file_list,
                   warned, file_rows, unreadable, read_log>>
    /\ UNCHANGED biologicVars
    /\ UNCHANGED resultVars
    /\ UNCHANGED procedureVars

\* BaseCycler.__init__ of a BiologicMB cycler over the tables read: the
\* imported table is pl.concat(self.dataframe_list), and Cycle and Event are
\* derived from its step column
ConstructBiologicMB ==
    /\ last_call = "none"
    /\ bio_file = <<>>
    /\ last_call' = "__init__"
    /\ IF mb_files = <<>>
       THEN /\ result' = Raised("ValueError")
            /\ UNCHANGED <<imported_dataframe, pyprobe_dataframe>>
       ELSE /\ result' = [raised |-> "", value |-> <<>>]
            /\ imported_dataframe' = StepTable(ConcatNs(mb_files, 1))
            /\ pyprobe_dataframe' =
                   [columns |-> required_columns,
                    Cycle |-> cycle(StepTable(ConcatNs(mb_files, 1))),
                    Event |-> event(StepTable(ConcatNs(mb_files, 1)))]
    /\ UNCHANGED <<glob_files, file_columns, common_suffix, common_prefix,
                   file_list, warned, file_rows, unreadable, read_log>>
    /\ UNCHANGED biologicVars
    /\ UNCHANGED resultVars
    /\ UNCHANGED procedureVars

NextBiologic ==
    \/ ReadFile
    \/ ConstructBiologic
    \/ GetImportedDataframe
    \/ ConstructBiologicMB

SpecBiologic == InitBiologic /\ [][NextBiologic]_vars

(***************************************************************************)
(* Properties of the Modulo Bat step correction.                           *)
(***************************************************************************)
\* the largest raw step of a table that has rows
LargestNs(table) ==
    CHOOSE m \in {table[r] : r \in 1..Len(table)} :
        \A r \in 1..Len(table) : table[r] <= m

RECURSIVE Offset(_)
\* the sum of (m_j + 1) over the tables before the k-th, a table without
\* rows adding nothing
Offset(k) ==
    IF k <= 1 THEN 0
    ELSE Offset(k - 1)
             + (IF mb_files[k - 1] = <<>> THEN 0 ELSE LargestNs(mb_files[k - 1]) + 1)

Corrected == last_call = "get_imported_dataframe" /\ result.raised = ""

\* C12: every row of file k gets corrected step = raw step + the sum of
\* (m_j + 1) over the files j before k, m_j being the largest raw step of
\* file j; the rows of the first file keep their raw step.
C12_StepCorrection ==
    Corrected =>
        /\ Len(result.value) = Len(ConcatNs(mb_files, 1))
        /\ \A r \in 1..Len(result.value) :
              result.value[r].Ns =
                  ConcatNs(mb_files, 1)[r] + Offset(result.value[r].MBFile + 1)

NonDecreasing(steps) == \A r \in 1..(Len(steps) - 1) : steps[r] <= steps[r + 1]

\* C13: when the raw steps inside each file are non-decreasing, the
\* corrected steps are non-decreasing over the whole concatenated table.
C13_MonotonicAcrossFiles ==
    (Corrected /\ \A k \in 1..Len(mb_files) : NonDecreasing(mb_files[k])) =>
        NonDecreasing([r \in 1..Len(result.value) |-> result.value[r].Ns])

\* C14: the Cycle and Event columns of a BiologicMB cycler are derived from
\* the steps as corrected by get_imported_dataframe, the correction coming
\* after the tagging and the concatenation and before the derivation.
C14_DerivedFromCorrectedSteps ==
    (last_call = "__init__" /\ bio_file = <<>> /\ Built) =>
        LET complete_df == get_imported_dataframe(MBList).value
            steps == [r \in 1..Len(complete_df) |-> complete_df[r].Ns]
        IN  /\ pyprobe_dataframe.Cycle = cycle(StepTable(steps))
            /\ pyprobe_dataframe.Event = event(StepTable(steps))

\* the rows of the plain concatenation of the tables, before the correction
RECURSIVE ConcatCells(_, _)
ConcatCells(cells, k) ==
    IF k > Len(cells) THEN <<>> ELSE cells[k] \o ConcatCells(cells, k + 1)

\* C27: apply_step_correction keeps the number and the order of the rows
\* and leaves every column but Ns as it was, null cells included.
C27_CorrectionFrame ==
    Corrected =>
        /\ Len(result.value) = Len(ConcatNs(mb_files, 1))
        /\ \A r \in 1..Len(result.value) :
              /\ result.value[r].Temperature = ConcatCells(mb_cells, 1)[r]
              /\ \A q \in 1..Len(result.value) :
                    r < q => result.value[r].MBFile <= result.value[q].MBFile

\* the Cycle and Event columns derived from a step column
CycleOf(steps) == cycle(StepTable(steps))
EventOf(steps) == event(StepTable(steps))

\* C25: for files whose raw steps are non-decreasing, Cycle and Event
\* derived from the corrected steps show no cycle increment and exactly one
\* event increment at every file boundary, whereas the raw steps increment
\* the cycle at a boundary where the counter restarts lower.
C25_BoundariesAreNotCycles ==
    (Corrected /\ \A k \in 1..Len(mb_files) : NonDecreasing(mb_files[k])) =>
        LET steps == [r \in 1..Len(result.value) |-> result.value[r].Ns]
            raw == ConcatNs(mb_files, 1)
        IN  \A r \in 1..(Len(steps) - 1) :
                result.value[r].MBFile # result.value[r + 1].MBFile =>
                    /\ CycleOf(steps)[r + 1].v = CycleOf(steps)[r].v
                    /\ EventOf(steps)[r + 1].v = EventOf(steps)[r].v + 1
                    /\ raw[r + 1] < raw[r] =>
                           CycleOf(raw)[r + 1].v = CycleOf(raw)[r].v + 1

(***************************************************************************)
(* Properties of Biologic.read_file.                                       *)
(***************************************************************************)
Colons(line) == Cardinality({i \in 1..Len(line) : line[i] = ":"})

\* the second line is one ":" followed by one numeral
HasMarker ==
    /\ Len(bio_file) >= 2
    /\ Colons(bio_file[2]) = 1
    /\ Len(bio_file[2]) >= 2
    /\ bio_file[2][Len(bio_file[2]) - 1] = ":"
    /\ \E n \in 0..(MaxHeaderLines + 1) : ToString(n) = bio_file[2][Len(bio_file[2])]

Declared ==
    CHOOSE n \in 0..(MaxHeaderLines + 1) : ToString(n) = bio_file[2][Len(bio_file[2])]

\* line i is "Acquisition started on : " and a time stamp that parses
Stamped(i) ==
    /\ i <= Len(bio_file)
    /\ bio_file[i] \in
           {<<"Acquisition started on", ":", stamp>> : stamp \in DOMAIN Timestamps}

Malformed == ~HasMarker \/ \A i \in 1..Declared : ~Stamped(i)

\* C19: when the second line carries no header-length marker, or no
\* "Acquisition started on" line with a time stamp that parses lies within
\* the declared header lines, read_file raises and returns no table, the file
\* is read once, and the construction of the cycler fails with that error.
C19_MalformedHeaderFatal ==
    (bio_file # <<>> /\ last_call \in {"read_file", "__init__"} /\ Malformed) =>
        /\ result.raised \in {"ValueError", "UnboundLocalError"}
        /\ result.value = <<>>
        /\ read_log = <<"bio_file">>
        /\ pyprobe_dataframe = <<>>

\* the construction of a cycler has failed on a file whose header declares
\* its length but holds a start line with a time stamp that does not parse
C19_Witness ==
    /\ last_call = "__init__"
    /\ HasMarker
    /\ \E i \in 1..Declared :
          bio_file[i] = <<"Acquisition started on", ":", "19/06/2023">>
    /\ \A i \in 1..Declared : ~Stamped(i)
    /\ result.raised = "ValueError"
    /\ pyprobe_dataframe = <<>>

\* C24: read_file takes the number n of header lines from the second line
\* and reads the table below exactly n lines, whatever n the header
\* declares: line n names the columns and the rows are the lines after it.
C24_SkipsDeclaredLines ==
    (last_call = "read_file" /\ result.raised = "") =>
        /\ HasMarker
        /\ result.value.columns = bio_file[Declared]
        /\ result.value.columns = <<"time/s">>
        /\ Len(result.value.rows) = Len(bio_file) - Declared
        /\ \A i \in 1..Len(result.value.rows) :
              result.value.rows[i].time = bio_file[Declared + i][1]

\* a file whose header declares MaxHeaderLines lines has been read, and
\* its two rows returned
C24_Witness ==
    /\ last_call = "read_file"
    /\ result.raised = ""
    /\ HasMarker
    /\ Declared = MaxHeaderLines
    /\ Len(result.value.rows) = 2
    /\ result.value.rows[1].time = bio_file[MaxHeaderLines + 1][1]

\* C20: the Date of every row is the start time stamp plus the row's
\* time/s taken as seconds: the start itself at 0 s, t seconds later at t s.
C20_DateSynthesis ==
    (last_call = "read_file" /\ result.raised = "") =>
        \A i \in 1..Len(result.value.rows) :
            result.value.rows[i].Date =
                result.value.start_time + Seconds[result.value.rows[i].time]


(***************************************************************************)
(* Procedure: the README of a procedure and the selection of experiments.  *)
(***************************************************************************)
MaxReadmeSteps == 4
MaxStepNumber == 3
MaxProcedureRows == 2

\* the experiment titles of the sample README, in its order, with their types
ExperimentNames == <<"Initial Charge", "Break-in Cycles", "Discharge Pulses">>
ExperimentTypes == <<"Constant Current", "Cycling", "Pulsing">>

\* experiment_types of Procedure.experiment: the class built for each type
experiment_types ==
    ("Constant Current" :> "Experiment") @@ ("Pulsing" :> "Pulsing")
        @@ ("Cycling" :> "Cycling") @@ ("pOCV" :> "pOCV")
        @@ ("SOC Reset" :> "Experiment")

\* the step list of one experiment, which omits the "+ 1"
step_list_from_zero(experiment, max_step) ==
    IF "Step Numbers" \in DOMAIN experiment
    THEN experiment["Step Numbers"]
    ELSE [i \in 1..Len(experiment["Steps"]) |-> (i - 1) + max_step]

\* the step list of one experiment in process_readme: the numbers given,
\* or range(len(Steps)) shifted by max_step + 1
step_list(experiment, max_step) ==
    IF "Step Numbers" \in DOMAIN experiment
    THEN experiment["Step Numbers"]
    ELSE [i \in 1..Len(experiment["Steps"]) |-> (i - 1) + max_step + 1]

\* the loop of process_readme over the experiments from the k-th on;
\* step_list[-1] of an empty list raises IndexError
RECURSIVE readme_steps(_, _, _, _)
readme_steps(readme, k, max_step, steps) ==
    IF k > Len(readme) THEN [raised |-> "", value |-> steps]
    ELSE LET list == step_list(readme[k].body, max_step)
         IN  IF list = <<>> THEN Raised("IndexError")
             ELSE readme_steps(readme, k + 1, list[Len(list)],
                               Append(steps, list))

\* Procedure.process_readme: the titles with their types and the step lists
process_readme(readme) ==
    LET steps == readme_steps(readme, 1, 0, <<>>)
    IN  IF steps.raised # "" THEN steps
        ELSE [raised |-> "",
              value |-> [titles |-> [k \in 1..Len(readme) |->
                                        <<readme[k].name,
                                          readme[k].body["Type"]>>],
                         steps |-> steps.value]]

\* Procedure.flatten on a list of lists
RECURSIVE flatten(_)
flatten(lst) ==
    IF lst = <<>> THEN <<>> ELSE lst[1] \o flatten(Tail(lst))

\* list(self.titles.keys())
experiment_names(ts) == [k \in 1..Len(ts) |-> ts[k][1]]

\* list.index
index(list, x) ==
    CHOOSE k \in 1..Len(list) :
        list[k] = x /\ \A j \in 1..(k - 1) : list[j] # x

\* Procedure.experiment, which selects by the first name only
experiment_of_first(ts, idx, data, names) ==
    LET keys == experiment_names(ts)
        unknown == {i \in 1..Len(names) : names[i] \notin Range(keys)}
        chosen == [i \in 1..Len(names) |-> idx[index(keys, names[i])]]
        flattened_steps == IF chosen = <<>> THEN <<>> ELSE chosen[1]
        type == ts[index(keys, names[1])][2]
    IN  IF unknown # {} THEN Raised("ValueError")
        ELSE IF Len(names) = 1 /\ type \notin DOMAIN experiment_types
        THEN Raised("KeyError")
        ELSE [raised |-> "",
              value |-> [experiment_obj |->
                             IF Len(names) = 1 THEN experiment_types[type]
                             ELSE "Experiment",
                         data |-> SelectSeq(data,
                             LAMBDA row : row.Step \in Range(flattened_steps))]]

\* Procedure.experiment(*experiment_names)
experiment(ts, idx, data, names) ==
    LET keys == experiment_names(ts)
        unknown == {i \in 1..Len(names) : names[i] \notin Range(keys)}
        chosen == [i \in 1..Len(names) |-> idx[index(keys, names[i])]]
        flattened_steps == flatten(chosen)
        type == ts[index(keys, names[1])][2]
    IN  IF unknown # {} THEN Raised("ValueError")
        ELSE IF Len(names) = 1 /\ type \notin DOMAIN experiment_types
        THEN Raised("KeyError")
        ELSE [raised |-> "",
              value |-> [experiment_obj |->
                             IF Len(names) = 1 THEN experiment_types[type]
                             ELSE "Experiment",
                         data |-> SelectSeq(data,
                             LAMBDA row : row.Step \in Range(flattened_steps))]]

\* the "Steps" of an experiment: n step descriptions
StepDescriptions(n) == [i \in 1..n |-> "step"]

\* the lists an experiment may give as its "Step Numbers"
StepNumbers ==
    {<<a>> : a \in 1..MaxStepNumber}
        \cup {<<a, b>> : a \in 1..MaxStepNumber, b \in 1..MaxStepNumber}

\* the bodies of an experiment of the given type, with or without numbers
Bodies(type) ==
    {("Type" :> type) @@ ("Steps" :> StepDescriptions(n)) : n \in 1..MaxReadmeSteps}
        \cup {("Type" :> type) @@ ("Steps" :> StepDescriptions(Len(numbers)))
                  @@ ("Step Numbers" :> numbers) : numbers \in StepNumbers}

\* a table with the given Step column; Row tells the rows apart
Table(column) ==
    [i \in 1..Len(column) |-> [Row |-> i, Step |-> column[i]]]

\* READMEs of one to three experiments, any of them with step numbers, over
\* a table that runs twice through the steps 1..MaxStepNumber
NumberedReadme ==
    /\ \/ \E a \in Bodies(ExperimentTypes[1]) :
              readme_dict = <<[name |-> ExperimentNames[1], body |-> a]>>
       \/ \E a \in Bodies(ExperimentTypes[1]), b \in Bodies(ExperimentTypes[2]) :
              readme_dict = <<[name |-> ExperimentNames[1], body |-> a],
                              [name |-> ExperimentNames[2], body |-> b]>>
       \/ \E a \in Bodies(ExperimentTypes[1]), b \in Bodies(ExperimentTypes[2]),
             c \in Bodies(ExperimentTypes[3]) :
              readme_dict = <<[name |-> ExperimentNames[1], body |-> a],
                              [name |-> ExperimentNames[2], body |-> b],
                              [name |-> ExperimentNames[3], body |-> c]>>
    /\ procedure_data = Table([i \in 1..(MaxStepNumber + MaxStepNumber) |->
                                  ((i - 1) % MaxStepNumber) + 1])

\* READMEs of three experiments without step numbers, over any short table
CountedReadme ==
    /\ \E a, b, c \in 1..MaxReadmeSteps :
           readme_dict =
               <<[name |-> ExperimentNames[1],
                  body |-> ("Type" :> ExperimentTypes[1]) @@ ("Steps" :> StepDescriptions(a))],
                 [name |-> ExperimentNames[2],
                  body |-> ("Type" :> ExperimentTypes[2]) @@ ("Steps" :> StepDescriptions(b))],
                 [name |-> ExperimentNames[3],
                  body |-> ("Type" :> ExperimentTypes[3]) @@ ("Steps" :> StepDescriptions(c))]>>
    /\ \E n \in 0..MaxProcedureRows :
           \E column \in [1..n -> 1..MaxStepNumber] :
               procedure_data = Table(column)

\* the names a caller may pass to Procedure.experiment
CallNames == Range(ExperimentNames) \cup {"Unknown"}
NameLists ==
    {<<>>} \cup {<<a>> : a \in CallNames} \cup {<<a, b>> : a \in CallNames, b \in CallNames}

(***************************************************************************)
(* Specification SpecProcedure: constructing a Procedure from its README   *)
(* and selecting experiments from it.                                      *)
(***************************************************************************)
InitProcedure ==
    /\ imported_dataframe = <<>>
    /\ pyprobe_dataframe = <<>>
    /\ glob_files = {}
    /\ file_columns = <<>>
    /\ common_suffix = <<>>
    /\ common_prefix = <<>>
    /\ file_list = <<>>
    /\ last_call = "none"
    /\ result = <<>>
    /\ result_data = <<>>
    /\ warned = <<>>
    /\ file_rows = <<>>
    /\ unreadable = {}
    /\ read_log = <<>>
    /\ mb_files = <<>>
    /\ mb_cells = <<>>
    /\ bio_file = <<>>
    /\ titles = <<>>
    /\ steps_idx = <<>>
    /\ \/ NumberedReadme
       \/ CountedReadme

\* Procedure.__init__: process_readme gives self.titles and self.steps_idx
ProcessReadme ==
    /\ last_call = "none"
    /\ last_call' = "process_readme"
    /\ LET read == process_readme(readme_dict)
       IN  /\ result' = read
           /\ IF read.raised # ""
              THEN UNCHANGED <<titles, steps_idx>>
              ELSE /\ titles' = read.value.titles
                   /\ steps_idx' = read.value.steps
    /\ UNCHANGED <<readme_dict, procedure_data>>
    /\ UNCHANGED cyclerVars
    /\ UNCHANGED <<glob_files, file_columns, common_suffix, common_prefix,
                   file_list, warned, file_rows, unreadable, read_log>>
    /\ UNCHANGED biologicVars
    /\ UNCHANGED resultVars

\* Procedure.experiment(*experiment_names) on a constructed Procedure
ExperimentCall ==
    /\ last_call = "process_readme"
    /\ result.raised = ""
    /\ last_call' = "experiment"
    /\ \E names \in NameLists :
           /\ read_log' = names
           /\ result' = experiment(titles, steps_idx, procedure_data, names)
    /\ UNCHANGED procedureVars
    /\ UNCHANGED cyclerVars
    /\ UNCHANGED <<glob_files, file_columns, common_suffix, common_prefix,
                   file_list, warned, file_rows, unreadable>>
    /\ UNCHANGED biologicVars
    /\ UNCHANGED resultVars

NextProcedure == ProcessReadme \/ ExperimentCall

SpecProcedure == InitProcedure /\ [][NextProcedure]_vars

(***************************************************************************)
(* Properties of Procedure.                                                *)
(***************************************************************************)
\* the experiments of the README that give no step numbers
Unnumbered == {k \in 1..Len(readme_dict) :
                  "Step Numbers" \notin DOMAIN readme_dict[k].body}

\* the last step number of the experiment before the k-th, 0 before the first
LastBefore(k) ==
    IF k = 1 THEN 0 ELSE steps_idx[k - 1][Len(steps_idx[k - 1])]

Selected ==
    SelectSeq(procedure_data,
              LAMBDA row : \E i \in 1..Len(read_log) :
                  \E k \in 1..Len(titles) :
                      /\ titles[k][1] = read_log[i]
                      /\ row.Step \in Range(steps_idx[k]))

\* C22: experiment(name1, ..., nameN) returns exactly the rows whose Step
\* is in the union of the step lists of the named experiments, in the order
\* of the table; a name that is no title raises ValueError and nothing is
\* returned.
C22_ExperimentRows ==
    last_call = "experiment" =>
        IF \E i \in 1..Len(read_log) :
               read_log[i] \notin Range(experiment_names(titles))
        THEN result = Raised("ValueError")
        ELSE /\ result.raised = ""
             /\ result.value.data = Selected

\* two experiments were named and rows of both, but not all rows, returned
C22_Witness ==
    /\ last_call = "experiment"
    /\ Len(read_log) = 2
    /\ read_log[1] # read_log[2]
    /\ result.raised = ""
    /\ Len(result.value.data) < Len(procedure_data)
    /\ \A i \in 1..2 :
           \E j \in 1..Len(result.value.data) :
               result.value.data[j].Step
                   \in Range(steps_idx[index(experiment_names(titles),
                                             read_log[i])])


(***************************************************************************)
(* Result: returning columns of the stored table, converted on request.    *)
(***************************************************************************)
MaxResultRows == 2

\* the column names that parse under the default pattern, with the column
\* that holds their quantity in its default unit
DefaultParseTable ==
    ("Current [A]" :> [unit |-> "A", default |-> "Current [A]"])
        @@ ("Current [mA]" :> [unit |-> "mA", default |-> "Current [A]"])
        @@ ("Voltage [V]" :> [unit |-> "V", default |-> "Voltage [V]"])
        @@ ("Voltage [mV]" :> [unit |-> "mV", default |-> "Voltage [V]"])

\* UnitConverter(column_name).from_default(): the default column scaled to
\* the unit of the name and given that name; ValueError for a name that
\* does not parse
from_default(column_name) ==
    IF column_name \notin DOMAIN DefaultParseTable
    THEN [raised |-> "ValueError", source |-> "", factor |-> 0, alias |-> ""]
    ELSE [raised |-> "",
          source |-> DefaultParseTable[column_name].default,
          factor |-> IF DefaultParseTable[column_name].unit \in {"mA", "mV"}
                     THEN Milli ELSE 1,
          alias |-> column_name]

\* DataFrame.with_columns(instruction): the expression is evaluated on the
\* table and its column appended under the alias
with_columns(data, instruction) ==
    IF instruction.source \notin Range(data.columns)
    THEN [raised |-> "ColumnNotFoundError", data |-> data]
    ELSE [raised |-> "",
          data |-> [columns |-> IF instruction.alias \in Range(data.columns)
                                THEN data.columns
                                ELSE Append(data.columns, instruction.alias),
                    cells |-> (instruction.alias :>
                                  [i \in 1..Len(data.cells[instruction.source])
                                      |-> data.cells[instruction.source][i]
                                              * instruction.factor])
                              @@ data.cells]]

\* Result.check_units(column_name): data is the table stored when it ends
check_units(data, column_name) ==
    IF column_name \in Range(data.columns)
    THEN [raised |-> "", data |-> data]
    ELSE LET instruction == from_default(column_name)
         IN  IF instruction.raised # ""
             THEN [raised |-> instruction.raised, data |-> data]
             ELSE with_columns(data, instruction)

\* the loop of Result.__call__ from the k-th argument on: what is returned
\* or raised, and the table stored when the call ends
RECURSIVE call(_, _, _, _)
call(data, args, k, arrays) ==
    IF k > Len(args)
    THEN [raised |-> "",
          value |-> [tuple |-> Len(arrays) # 1, arrays |-> arrays],
          data |-> data]
    ELSE LET checked == check_units(data, args[k])
         IN  IF checked.raised # ""
             THEN [raised |-> checked.raised, value |-> <<>>,
                   data |-> checked.data]
             ELSE IF args[k] \notin Range(checked.data.columns)
             THEN [raised |-> "ValueError", value |-> <<>>,
                   data |-> checked.data]
             ELSE call(checked.data, args, k + 1,
                       Append(arrays, checked.data.cells[args[k]]))

\* the columns a Result may hold, and the names a caller may ask for
ResultColumns ==
    <<"Current [A]", "Current [mA]", "Voltage [V]", "Voltage [mV]">>
RequestNames == Range(ResultColumns) \cup {"Capacity"}
Requests ==
    {<<>>} \cup {<<a>> : a \in RequestNames}
        \cup {<<a, b>> : a \in RequestNames, b \in RequestNames}

\* the cells of a column of n rows: readings in the default unit, scaled
\* for the other units
Column(name, n) ==
    [i \in 1..n |-> (i + IF DefaultParseTable[name].default = "Voltage [V]"
                         THEN n ELSE 0)
                    * (IF DefaultParseTable[name].unit \in {"mA", "mV"}
                       THEN Milli ELSE 1)]

\* a Result over any of the columns, in the order of ResultColumns
ResultTable ==
    \E present \in SUBSET Range(ResultColumns), n \in 0..MaxResultRows :
        result_data =
            [columns |-> SelectSeq(ResultColumns, LAMBDA c : c \in present),
             cells |-> [c \in present |-> Column(c, n)]]

(***************************************************************************)
(* Specification SpecResult: calls on a Result.                            *)
(***************************************************************************)
InitResult ==
    /\ imported_dataframe = <<>>
    /\ pyprobe_dataframe = <<>>
    /\ glob_files = {}
    /\ file_columns = <<>>
    /\ common_suffix = <<>>
    /\ common_prefix = <<>>
    /\ file_list = <<>>
    /\ last_call = "none"
    /\ result = <<>>
    /\ warned = <<>>
    /\ file_rows = <<>>
    /\ unreadable = {}
    /\ read_log = <<>>
    /\ mb_files = <<>>
    /\ mb_cells = <<>>
    /\ bio_file = <<>>
    /\ NoProcedure
    /\ ResultTable

\* Result.__call__(*args)
Call ==
    /\ last_call = "none"
    /\ last_call' = "__call__"
    /\ \E args \in Requests :
           LET returned == call(result_data, args, 1, <<>>)
           IN  /\ read_log' = args
               /\ result' = [raised |-> returned.raised,
                             value |-> returned.value]
               /\ result_data' = returned.data
    /\ UNCHANGED procedureVars
    /\ UNCHANGED cyclerVars
    /\ UNCHANGED <<glob_files, file_columns, common_suffix, common_prefix,
                   file_list, warned, file_rows, unreadable>>
    /\ UNCHANGED biologicVars

\* Result.check_units(column_name)
CheckUnits ==
    /\ last_call = "none"
    /\ last_call' = "check_units"
    /\ \E column_name \in RequestNames :
           LET checked == check_units(result_data, column_name)
           IN  /\ read_log' = <<column_name>>
               /\ result' = [raised |-> checked.raised, value |-> <<>>]
               /\ result_data' = checked.data
    /\ UNCHANGED procedureVars
    /\ UNCHANGED cyclerVars
    /\ UNCHANGED <<glob_files, file_columns, common_suffix, common_prefix,
                   file_list, warned, file_rows, unreadable>>
    /\ UNCHANGED biologicVars

NextResult == Call \/ CheckUnits

SpecResult == InitResult /\ [][NextResult]_vars

(***************************************************************************)
(* Properties of Result.                                                   *)
(***************************************************************************)
\* the call returns the requested columns in argument order, as one array
\* for one argument, and adds columns only under requested, absent names
ReturnsRequested ==
    result'.raised = "" =>
        /\ result'.value.tuple = (Len(read_log') # 1)
        /\ result'.value.arrays
               = [k \in 1..Len(read_log') |-> result_data'.cells[read_log'[k]]]
        /\ Range(result_data'.columns) \ Range(result_data.columns)
               \subseteq Range(read_log')

\* a call that raises leaves the columns of the stored table as they were
RaisesWithoutTrace ==
    result'.raised # "" =>
        Range(result_data'.columns) = Range(result_data.columns)

\* a call for columns that are all present leaves the stored table alone
PresentUntouched ==
    (\A k \in 1..Len(read_log') : read_log'[k] \in Range(result_data.columns))
        => result_data' = result_data

\* C28: Result.__call__ is all-or-nothing on the stored table: it returns
\* the requested columns in argument order (one array for one argument, a
\* tuple otherwise) and adds a converted column only for a requested name
\* that is absent; a call that raises leaves the column set of the stored
\* table as it was before the call; asking for present columns never
\* modifies the table.
C28_AllOrNothing ==
    [][(last_call = "none" /\ last_call' = "__call__") =>
           /\ ReturnsRequested
           /\ RaisesWithoutTrace
           /\ PresentUntouched]_vars

\* what holds of the call: all of the above but for a call that raises
C28_ReturnsAndKeeps ==
    [][(last_call = "none" /\ last_call' = "__call__") =>
           /\ ReturnsRequested
           /\ PresentUntouched
           /\ result'.raised # "" =>
                  /\ Range(result_data.columns)
                         \subseteq Range(result_data'.columns)
                  /\ Range(result_data'.columns) \ Range(result_data.columns)
                         \subseteq Range(read_log')]_vars

====
